---- MODULE Spec2Model ----
(***************************************************************************)
(* The session table of a PKCS#11 token (src/lib/session_table.c): a fixed *)
(* array of session contexts indexed by handle, two counters, the handle   *)
(* cursor and the table mutex, together with the token's login state and   *)
(* its cached login context.                                               *)
(*                                                                         *)
(* Each caller is a thread with a program counter.  A step of a caller is  *)
(* one of the table's functions, or the part of one that runs between two  *)
(* points where the caller can block on a mutex.                           *)
(*                                                                         *)
(* An access outside table[0 .. MaxSessions-1] is undefined behaviour.     *)
(* The model gives it the outcomes the layout of struct session_table      *)
(* produces (table[MaxSessions] is the storage of the lock member), lets   *)
(* the function finish, and then stops the run with halt = "corrupt";      *)
(* a failed assert() stops it with halt = "abort".                         *)
(***************************************************************************)
EXTENDS Integers, FiniteSets, Sequences, TLC

\* MAX_NUM_OF_SESSIONS, scaled down
MaxSessions == 3
\* number of session contexts the allocator can hold at once
NumCtx == 4

Threads == {1, 2}
\* the callers of the single-caller specification
Callers == {1}

NULL == 0
NoThread == 0
\* the value of the lock member, read through table[MaxSessions]
LockPtr == -1

Slots == 0 .. (MaxSessions - 1)
\* table[] and the word that follows it in struct session_table
Cells == 0 .. MaxSessions
\* handles a caller may pass: in range, MaxSessions itself, and beyond
Handles == 0 .. (MaxSessions + 1)
Addr == 1 .. NumCtx

CK_STATE == {"RO_PUBLIC", "RO_USER", "RW_PUBLIC", "RW_USER", "RW_SO"}
Users == {"user", "so"}

VARIABLES
    cnt,                \* session_table.cnt
    rw_cnt,             \* session_table.rw_cnt
    free_handle,        \* session_table.free_handle
    table,              \* session_table.table, and the lock member after it
    lock,               \* holder of the table mutex, or NoThread
    login_state,        \* token.login_state
    login_session_ctx,  \* token.login_session_ctx
    live,               \* live[a]: a session_ctx is allocated at address a
    ctx_state,          \* the CK_STATE of the context at each address
    ctx_lock,           \* holder of each context's mutex, or NoThread
    thr,                \* per caller: program counter, arguments, locals, results
    nfree,              \* session_ctx_free calls per address in the running close
    closed,             \* the handles whose session a close has closed
    issued,             \* the handles successful creates have returned
    halt                \* "run", "abort" (assert failed) or "corrupt"

vars == <<cnt, rw_cnt, free_handle, table, lock, login_state, login_session_ctx,
          live, ctx_state, ctx_lock, thr, nfree, closed, issued, halt>>

\* struct session_table (table, counters, cursor)
tablevars == <<cnt, rw_cnt, free_handle, table, closed, issued>>
tokenvars == <<login_state, login_session_ctx>>
heapvars == <<live, ctx_state, ctx_lock, nfree>>

IdleThread ==
    [pc |-> "idle", op |-> "none", handle |-> 0, rw |-> FALSE, user |-> "user",
     ctx |-> NULL, i |-> 0, rv |-> "none", out |-> 0, counts |-> <<0, 0, 0>>,
     nlock |-> 0, nunlock |-> 0, acc |-> {}, sent |-> <<>>, login_slots |-> {}]

\* calloc(1, sizeof(session_table)) and mutex_create(&x->lock)
Init ==
    /\ cnt = 0
    /\ rw_cnt = 0
    /\ free_handle = 0
    /\ table = [s \in Cells |-> IF s = MaxSessions THEN LockPtr ELSE NULL]
    /\ lock = NoThread
    /\ login_state = "none"
    /\ login_session_ctx = NULL
    /\ live = [a \in Addr |-> FALSE]
    /\ ctx_state = [a \in Addr |-> "RO_PUBLIC"]
    /\ ctx_lock = [a \in Addr |-> NoThread]
    /\ thr = [t \in Threads |-> IdleThread]
    /\ nfree = [a \in Addr |-> 0]
    /\ closed = {}
    /\ issued = {}
    /\ halt = "run"

Running(t, label) == halt = "run" /\ thr[t].pc = label

Call(t, opname, label) ==
    [IdleThread EXCEPT !.pc = label, !.op = opname]

----
\* The mutex of the table.

LockLabels == {"new_lock", "cnt_lock", "free_lock", "all_lock", "lk_lock"}
UnlockLabels == {"new_unlock", "cnt_unlock", "free_unlock", "all_unlock", "lk_unlock"}

AfterLock(label) ==
    CASE label = "new_lock" -> "new_ctx"
      [] label = "cnt_lock" -> "get_cnt"
      [] label = "free_lock" -> "free_by_handle"
      [] label = "all_lock" -> "all_loop"
      [] label = "lk_lock" -> "lk_read"

\* mutex_lock_fatal(t->lock): blocks while another caller holds the mutex
session_table_lock(t) ==
    /\ halt = "run"
    /\ thr[t].pc \in LockLabels
    /\ lock = NoThread
    /\ lock' = t
    /\ thr' = [thr EXCEPT ![t].pc = AfterLock(thr[t].pc), ![t].nlock = @ + 1]
    /\ UNCHANGED <<tablevars, tokenvars, heapvars, halt>>

\* return: the function has returned, its caller has read the results and
\* the locals are gone
return(t) ==
    /\ Running(t, "ret")
    /\ thr' = [thr EXCEPT ![t] = IdleThread]
    /\ nfree' = [a \in Addr |-> 0]
    /\ UNCHANGED <<tablevars, lock, tokenvars, live, ctx_state, ctx_lock, halt>>

\* where a function goes once it has released the mutex: a lookup that
\* found a context hands it, locked, to its caller
AfterUnlock(r) ==
    IF r.pc = "lk_unlock" /\ r.ctx # NULL THEN "holding" ELSE "ret"

\* mutex_unlock_fatal(t->lock)
session_table_unlock(t) ==
    /\ halt = "run"
    /\ thr[t].pc \in UnlockLabels
    /\ lock = t
    /\ lock' = NoThread
    /\ thr' = [thr EXCEPT ![t].pc = AfterUnlock(thr[t]), ![t].nunlock = @ + 1]
    /\ UNCHANGED <<tablevars, tokenvars, heapvars, halt>>

----
\* Counting.

\* session_table_get_cnt: entry
session_table_get_cnt(t) ==
    /\ Running(t, "idle")
    /\ thr' = [thr EXCEPT ![t] = Call(t, "count", "cnt_lock")]
    /\ UNCHANGED <<tablevars, lock, tokenvars, heapvars, halt>>

\* session_table_get_cnt_unlocked: assert(cnt >= rw_cnt), then all, rw, ro
session_table_get_cnt_unlocked(t) ==
    /\ Running(t, "get_cnt")
    /\ IF cnt >= rw_cnt
       THEN /\ thr' = [thr EXCEPT ![t].pc = "cnt_unlock", ![t].rv = "OK",
                                  ![t].counts = <<cnt, rw_cnt, cnt - rw_cnt>>]
            /\ halt' = halt
       ELSE /\ thr' = thr
            /\ halt' = "abort"
    /\ UNCHANGED <<tablevars, lock, tokenvars, heapvars>>

----
\* Session contexts (session_ctx.h): construction, destruction, state.

\* the state a new session starts in: read-write or read-only by the flag,
\* public or logged-in by the token's login state
NewSessionState(rw, ls) ==
    IF rw
    THEN (CASE ls = "none" -> "RW_PUBLIC" [] ls = "user" -> "RW_USER" [] ls = "so" -> "RW_SO")
    ELSE (IF ls = "user" THEN "RO_USER" ELSE "RO_PUBLIC")

\* the heap of session contexts as one value, so that one function can free
\* two contexts in a row
Heap == [live |-> live, st |-> ctx_state, lk |-> ctx_lock, nf |-> nfree, bad |-> FALSE]

\* session_ctx_free(a): releases the context and its mutex; releasing an
\* address that holds no context is a double free, and releasing a context
\* whose mutex a caller holds destroys a locked mutex and leaves that caller
\* with freed memory
session_ctx_free(H, a) ==
    [live |-> [H.live EXCEPT ![a] = FALSE],
     st |-> [H.st EXCEPT ![a] = "RO_PUBLIC"],
     lk |-> [H.lk EXCEPT ![a] = NoThread],
     nf |-> [H.nf EXCEPT ![a] = @ + 1],
     bad |-> H.bad \/ ~H.live[a] \/ H.lk[a] # NoThread]

SetHeap(H) ==
    /\ live' = H.live
    /\ ctx_state' = H.st
    /\ ctx_lock' = H.lk
    /\ nfree' = H.nf
    /\ halt' = IF H.bad THEN "corrupt" ELSE halt

----
\* Session creation.

\* the caller of session_table_new_ctx_unlocked: it takes the table mutex
\* first and passes the flags of the session to open
open_session(t) ==
    /\ Running(t, "idle")
    /\ \E rw \in BOOLEAN :
         thr' = [thr EXCEPT ![t] = [Call(t, "create", "new_lock") EXCEPT !.rw = rw]]
    /\ UNCHANGED <<tablevars, lock, tokenvars, heapvars, halt>>

\* session_ctx_new: calloc may return any address that holds no context.
\* Addresses no pointer of the program refers to are interchangeable, so the
\* lowest of them stands for all; an address a stale pointer still refers to
\* (the cached login context after a logout) is a different choice.
NewCtxAddr ==
    LET free == {a \in Addr : ~live[a]}
        referred == {login_session_ctx} \cup {thr[t].ctx : t \in Threads}
        fresh == free \ referred
    IN (free \cap referred)
       \cup (IF fresh = {} THEN {} ELSE {CHOOSE a \in fresh : \A b \in fresh : a <= b})

\* mutant: every new session is counted as read-write
RwCntAfterNew_Always(rw) == rw_cnt + 1

\* if (flags & CKF_RW_SESSION) t->rw_cnt++
RwCntAfterNew(rw) == IF rw THEN rw_cnt + 1 ELSE rw_cnt

\* mutant: the cursor is not advanced
NextFreeHandle_Stuck(h) == h

\* t->free_handle++
NextFreeHandle(h) == h + 1

\* session_table_new_ctx_unlocked.  c = &t->table[t->free_handle] is read by
\* assert(!*c) and written by session_ctx_new; nothing bounds free_handle, so
\* with free_handle = MaxSessions c is the lock member: a build with asserts
\* aborts on its non-null value, a build without stores the context over it.
session_table_new_ctx_unlocked(t) ==
    /\ Running(t, "new_ctx")
    /\ LET h == free_handle
           touched == [thr[t] EXCEPT !.acc = @ \cup {h}, !.pc = "new_unlock"]
       IN
       \/ \* assert(!*c) fails
          /\ table[h] # NULL
          /\ thr' = [thr EXCEPT ![t] = [touched EXCEPT !.pc = "new_ctx"]]
          /\ halt' = "abort"
          /\ UNCHANGED <<tablevars, heapvars>>
       \/ \* session_ctx_new fails: CKR_HOST_MEMORY, table unmodified
          /\ thr' = [thr EXCEPT ![t] = [touched EXCEPT !.rv = "HOST_MEMORY"]]
          /\ UNCHANGED <<tablevars, heapvars, halt>>
       \/ \* session_ctx_new stores a new context through c
          \E a \in NewCtxAddr :
            /\ table' = [table EXCEPT ![h] = a]
            /\ live' = [live EXCEPT ![a] = TRUE]
            /\ ctx_state' = [ctx_state EXCEPT ![a] = NewSessionState(thr[t].rw, login_state)]
            /\ free_handle' = NextFreeHandle(free_handle)
            /\ issued' = issued \cup {h}
            /\ cnt' = cnt + 1
            /\ rw_cnt' = RwCntAfterNew(thr[t].rw)
            /\ thr' = [thr EXCEPT ![t] = [touched EXCEPT !.rv = "OK", !.out = h]]
            /\ halt' = IF h \in Slots THEN halt ELSE "corrupt"
            /\ UNCHANGED <<ctx_lock, nfree, closed>>
    /\ UNCHANGED <<lock, tokenvars>>

----
\* Session destruction and the cascade logout.

\* mutant: the security officer's read-write state is left out
IsRWState_NoSO(s) == s \in {"RW_PUBLIC", "RW_USER"}

\* state == CKS_RW_PUBLIC_SESSION || CKS_RW_USER_FUNCTIONS || CKS_RW_SO_FUNCTIONS
IsRWState(s) == s \in {"RW_PUBLIC", "RW_USER", "RW_SO"}

\* mutant: the count is tested before it is decremented
CountHitZero_BeforeDecrement(c) == c = 1

\* if (!stable->cnt): the count has hit 0
CountHitZero(c) == c = 0

\* do_logout_if_needed: t->login_state != token_no_one_logged_in
LoggedIn(ls) == ls # "none"

\* mutant: the closed context is always freed by the ordinary path
IsCachedLoginCtx_Never(c) == FALSE

\* if (t->login_session_ctx != *ctx) session_ctx_free(*ctx): the cached login
\* context is not freed by the ordinary path
IsCachedLoginCtx(c) == login_session_ctx = c

\* mutant: the slot keeps its pointer
ClearedSlot_Kept(s) == table

\* *ctx = NULL
ClearedSlot(s) == [table EXCEPT ![s] = NULL]

\* mutant: an empty slot is reported as closed
EmptySlotResult_Ok == "OK"

\* the result of session_table_free_ctx_unlocked_by_handle on an empty slot
EmptySlotResult == "HANDLE_INVALID"

\* session_table_free_ctx_unlocked_by_ctx from the ordinary free to the end:
\* free *ctx unless it is the cached login context, clear the slot
FreeAndClear(s, H) ==
    /\ SetHeap(IF IsCachedLoginCtx(table[s]) THEN H ELSE session_ctx_free(H, table[s]))
    /\ table' = ClearedSlot(s)
    /\ closed' = closed \cup {s}
    /\ issued' = issued

\* session_table_free_ctx_unlocked_by_ctx on the occupied slot s, up to the
\* point where do_logout_if_needed has to take the login context's mutex
\* (the caller goes on at logout_pc), or to the end when no logout is due
\* (the caller goes on with done, its record on return)
session_table_free_ctx_unlocked_by_ctx(t, s, logout_pc, done) ==
    LET rw == IsRWState(ctx_state[table[s]])
        me == [thr[t] EXCEPT !.acc = @ \cup {s}]
    IN
    IF rw /\ rw_cnt = 0
    THEN \* assert(stable->rw_cnt)
         /\ halt' = "abort"
         /\ thr' = [thr EXCEPT ![t] = me]
         /\ UNCHANGED <<tablevars, tokenvars, heapvars>>
    ELSE /\ rw_cnt' = (IF rw THEN rw_cnt - 1 ELSE rw_cnt)
         /\ cnt' = cnt - 1
         /\ IF CountHitZero(cnt - 1) /\ LoggedIn(login_state)
            THEN /\ thr' = [thr EXCEPT ![t] = [me EXCEPT !.pc = logout_pc]]
                 /\ UNCHANGED <<table, closed, issued, heapvars, halt>>
            ELSE /\ FreeAndClear(s, Heap)
                 /\ thr' = [thr EXCEPT ![t] = [done EXCEPT !.acc = @ \cup {s}]]
         /\ UNCHANGED <<free_handle, tokenvars>>

\* do_logout_if_needed past its test, and the rest of
\* session_table_free_ctx_unlocked_by_ctx: lock the cached login context
\* (blocking while another caller holds it), log the token out
\* (session_ctx_token_logout sets the login state to no-one-logged-in and
\* leaves login_session_ctx as it is), free the login context; then the
\* ordinary free and the clearing of the slot
do_logout_if_needed(t, s, done) ==
    /\ ctx_lock[login_session_ctx] = NoThread
    /\ login_state' = "none"
    /\ FreeAndClear(s, session_ctx_free(Heap, login_session_ctx))
    /\ thr' = [thr EXCEPT ![t] = done]
    /\ UNCHANGED <<cnt, rw_cnt, free_handle, login_session_ctx>>

\* session_table_free_ctx: entry
session_table_free_ctx(t) ==
    /\ Running(t, "idle")
    /\ \E h \in Handles :
         thr' = [thr EXCEPT ![t] = [Call(t, "close", "free_lock") EXCEPT !.handle = h]]
    /\ nfree' = [a \in Addr |-> 0]
    /\ UNCHANGED <<tablevars, lock, tokenvars, live, ctx_state, ctx_lock, halt>>

\* session_table_free_ctx_unlocked_by_handle.  ctx = &stable->table[handle] is
\* read without any check of handle: handle = MaxSessions reads the lock member
\* (non-null, then used as a session context), a larger handle reads whatever
\* follows the table structure.
session_table_free_ctx_unlocked_by_handle(t) ==
    /\ Running(t, "free_by_handle")
    /\ LET h == thr[t].handle
           me == [thr[t] EXCEPT !.acc = @ \cup {h}, !.pc = "free_unlock"]
       IN
       IF h \in Slots
       THEN IF table[h] = NULL
            THEN /\ thr' = [thr EXCEPT ![t] = [me EXCEPT !.rv = EmptySlotResult]]
                 /\ UNCHANGED <<tablevars, tokenvars, heapvars, halt>>
            ELSE session_table_free_ctx_unlocked_by_ctx(t, h, "free_logout",
                     [thr[t] EXCEPT !.pc = "free_unlock", !.rv = "OK"])
       ELSE /\ \/ \* the word read is non-null: it is used as a session context
                  /\ thr' = [thr EXCEPT ![t] = [me EXCEPT !.rv = "UB"]]
                  /\ halt' = "corrupt"
               \/ \* the word read is null
                  /\ h > MaxSessions
                  /\ thr' = [thr EXCEPT ![t] = [me EXCEPT !.rv = EmptySlotResult]]
                  /\ halt' = halt
            /\ UNCHANGED <<tablevars, tokenvars, heapvars>>
    /\ lock' = lock

\* the cascade logout of a close by handle
free_ctx_logout(t) ==
    /\ Running(t, "free_logout")
    /\ do_logout_if_needed(t, thr[t].handle,
           [thr[t] EXCEPT !.pc = "free_unlock", !.rv = "OK"])
    /\ lock' = lock

\* session_table_free_ctx_all: entry.  login_slots records the slot of the
\* session that holds the login when the call is made, if there is one
session_table_free_ctx_all(t) ==
    /\ Running(t, "idle")
    /\ thr' = [thr EXCEPT ![t] =
                 [Call(t, "close_all", "all_lock") EXCEPT !.login_slots =
                     {s \in Slots : LoggedIn(login_state) /\ table[s] = login_session_ctx}]]
    /\ nfree' = [a \in Addr |-> 0]
    /\ UNCHANGED <<tablevars, lock, tokenvars, live, ctx_state, ctx_lock, halt>>

\* mutant: the loop stops one slot short
AfterSlot_OneShort(r) ==
    [r EXCEPT !.i = @ + 1,
              !.pc = IF r.i + 1 < MaxSessions - 1 THEN "all_loop" ELSE "all_unlock"]

\* for (i = 0; i < ARRAY_LEN(table); i++): where the loop goes after slot i
AfterSlot(r) ==
    [r EXCEPT !.i = @ + 1,
              !.pc = IF r.i + 1 < MaxSessions THEN "all_loop" ELSE "all_unlock"]

\* one turn of the loop of session_table_free_ctx_all: skip a dead handle,
\* close an occupied slot
free_ctx_all_slot(t) ==
    /\ Running(t, "all_loop")
    /\ LET i == thr[t].i IN
       IF table[i] = NULL
       THEN /\ thr' = [thr EXCEPT ![t] = AfterSlot([thr[t] EXCEPT !.acc = @ \cup {i}])]
            /\ UNCHANGED <<tablevars, tokenvars, heapvars, halt>>
       ELSE session_table_free_ctx_unlocked_by_ctx(t, i, "all_logout", AfterSlot(thr[t]))
    /\ lock' = lock

\* the cascade logout of a close-all
free_ctx_all_logout(t) ==
    /\ Running(t, "all_logout")
    /\ do_logout_if_needed(t, thr[t].i, AfterSlot([thr[t] EXCEPT !.pc = "all_loop"]))
    /\ lock' = lock

----
\* Lookup.

\* if (handle > ARRAY_LEN(t->table)) return NULL: the handles lookup accepts
LookupAccepts(h) == ~(h > MaxSessions)

\* session_table_lookup: entry and bounds check
session_table_lookup(t) ==
    /\ Running(t, "idle")
    /\ \E h \in Handles :
         thr' = [thr EXCEPT ![t] =
                   IF LookupAccepts(h)
                   THEN [Call(t, "lookup", "lk_lock") EXCEPT !.handle = h]
                   ELSE [Call(t, "lookup", "ret") EXCEPT !.handle = h, !.rv = "NULL"]]
    /\ UNCHANGED <<tablevars, lock, tokenvars, heapvars, halt>>

\* ctx = *session_table_lookup_unlocked(t, handle); if (!ctx) goto unlock
lookup_read_slot(t) ==
    /\ Running(t, "lk_read")
    /\ LET h == thr[t].handle
           me == [thr[t] EXCEPT !.acc = @ \cup {h}]
       IN
       IF table[h] = NULL
       THEN thr' = [thr EXCEPT ![t] = [me EXCEPT !.pc = "lk_unlock", !.rv = "NULL"]]
       ELSE thr' = [thr EXCEPT ![t] = [me EXCEPT !.pc = "lk_ctx_lock", !.ctx = table[h]]]
    /\ UNCHANGED <<tablevars, lock, tokenvars, heapvars, halt>>

\* mutant: lookup hands the context out without taking its mutex
LockedBy_NotTaken(c, t) == ctx_lock

\* the context's mutex once lookup has taken it for caller t
LockedBy(c, t) == [ctx_lock EXCEPT ![c] = t]

\* session_ctx_lock(ctx) in session_table_lookup: blocks while another caller
\* holds the context; a ctx that is the lock member is no session context
lookup_ctx_lock(t) ==
    /\ Running(t, "lk_ctx_lock")
    /\ LET c == thr[t].ctx IN
       IF c \in Addr
       THEN /\ ctx_lock[c] = NoThread
            /\ ctx_lock' = LockedBy(c, t)
            /\ thr' = [thr EXCEPT ![t].pc = "lk_unlock", ![t].rv = "CTX"]
            /\ halt' = halt
       ELSE /\ thr' = [thr EXCEPT ![t].pc = "lk_unlock", ![t].rv = "UB"]
            /\ halt' = "corrupt"
            /\ ctx_lock' = ctx_lock
    /\ UNCHANGED <<tablevars, lock, tokenvars, live, ctx_state, nfree>>

\* session_ctx_unlock: the caller of lookup releases the context it was handed
session_ctx_unlock(t) ==
    /\ halt = "run"
    /\ thr[t].pc \in {"holding", "used"}
    /\ ctx_lock' = [ctx_lock EXCEPT ![thr[t].ctx] = NoThread]
    /\ thr' = [thr EXCEPT ![t] = IdleThread]
    /\ UNCHANGED <<tablevars, lock, tokenvars, live, ctx_state, nfree, halt>>

----
\* Login, logout and their broadcast.

\* the read-write states of a session
ReadWrite(s) == s \in {"RW_PUBLIC", "RW_USER", "RW_SO"}

\* session_ctx_login_event: the state a session moves to at a login
LoginEventState(s, user) ==
    IF user = "user"
    THEN (CASE s = "RO_PUBLIC" -> "RO_USER" [] s = "RW_PUBLIC" -> "RW_USER" [] OTHER -> s)
    ELSE (IF ReadWrite(s) THEN "RW_SO" ELSE s)

\* session_ctx_logout_event: the state a session moves to at a logout
LogoutEventState(s) ==
    IF ReadWrite(s) THEN "RW_PUBLIC" ELSE "RO_PUBLIC"

\* mutant: no notified session is told to take its mutex
TakeLock_Never(c, called) == FALSE

\* bool take_lock = ctx != called_session
TakeLock(c, called) == c # called

\* a login through the session the caller holds: refused when someone is
\* logged in, else every open session is notified
session_ctx_login(t) ==
    /\ Running(t, "holding")
    /\ login_state = "none"
    /\ \E u \in Users :
         thr' = [thr EXCEPT ![t].pc = "login_event", ![t].op = "login",
                            ![t].user = u, ![t].i = 0]
    /\ UNCHANGED <<tablevars, lock, tokenvars, heapvars, halt>>

\* a logout through the session the caller holds
session_ctx_logout(t) ==
    /\ Running(t, "holding")
    /\ login_state # "none"
    /\ thr' = [thr EXCEPT ![t].pc = "logout_event", ![t].op = "logout", ![t].i = 0]
    /\ UNCHANGED <<tablevars, lock, tokenvars, heapvars, halt>>

\* one turn of the loop of a broadcast: table[i] is read without the table
\* mutex; an occupied slot is notified, under its own mutex unless it is the
\* session that triggered the broadcast.  sent records each notification:
\* the slot and the take_lock flag passed with it
Broadcast(t, loop_pc, done_pc) ==
    /\ Running(t, loop_pc)
    /\ LET i == thr[t].i
           c == table[i]
       IN
       /\ IF c = NULL
          THEN UNCHANGED ctx_state
          ELSE /\ TakeLock(c, thr[t].ctx) => ctx_lock[c] = NoThread
               /\ ctx_state' = [ctx_state EXCEPT ![c] =
                                   IF loop_pc = "login_event"
                                   THEN LoginEventState(@, thr[t].user)
                                   ELSE LogoutEventState(@)]
       /\ thr' = [thr EXCEPT ![t].i = i + 1,
                             ![t].acc = @ \cup {i},
                             ![t].sent = IF c = NULL THEN @
                                         ELSE Append(@, <<i, TakeLock(c, thr[t].ctx)>>),
                             ![t].pc = IF i + 1 < MaxSessions THEN loop_pc ELSE done_pc]
    /\ UNCHANGED <<tablevars, lock, tokenvars, live, ctx_lock, nfree, halt>>

session_table_login_event(t) ==
    Broadcast(t, "login_event", "login_done")

session_table_logout_event(t) ==
    Broadcast(t, "logout_event", "logout_done")

\* the end of a login: the token records the role and caches the session
login_done(t) ==
    /\ Running(t, "login_done")
    /\ login_state' = thr[t].user
    /\ login_session_ctx' = thr[t].ctx
    /\ thr' = [thr EXCEPT ![t].pc = "used", ![t].rv = "OK"]
    /\ UNCHANGED <<tablevars, lock, heapvars, halt>>

\* the end of a logout: no one is logged in; the cached session stays
logout_done(t) ==
    /\ Running(t, "logout_done")
    /\ login_state' = "none"
    /\ thr' = [thr EXCEPT ![t].pc = "used", ![t].rv = "OK"]
    /\ UNCHANGED <<tablevars, lock, login_session_ctx, heapvars, halt>>

----
\* The specification: one caller, every function of the table.

Next ==
    \/ \E t \in Callers : session_table_lock(t)
    \/ \E t \in Callers : session_table_unlock(t)
    \/ \E t \in Callers : return(t)
    \/ \E t \in Callers : session_table_get_cnt(t)
    \/ \E t \in Callers : session_table_get_cnt_unlocked(t)
    \/ \E t \in Callers : open_session(t)
    \/ \E t \in Callers : session_table_new_ctx_unlocked(t)
    \/ \E t \in Callers : session_table_free_ctx(t)
    \/ \E t \in Callers : session_table_free_ctx_unlocked_by_handle(t)
    \/ \E t \in Callers : free_ctx_logout(t)
    \/ \E t \in Callers : session_table_free_ctx_all(t)
    \/ \E t \in Callers : free_ctx_all_slot(t)
    \/ \E t \in Callers : free_ctx_all_logout(t)
    \/ \E t \in Callers : session_table_lookup(t)
    \/ \E t \in Callers : lookup_read_slot(t)
    \/ \E t \in Callers : lookup_ctx_lock(t)
    \/ \E t \in Callers : session_ctx_unlock(t)
    \/ \E t \in Callers : session_ctx_login(t)
    \/ \E t \in Callers : session_ctx_logout(t)
    \/ \E t \in Callers : session_table_login_event(t)
    \/ \E t \in Callers : session_table_logout_event(t)
    \/ \E t \in Callers : login_done(t)
    \/ \E t \in Callers : logout_done(t)

Spec == Init /\ [][Next]_vars

TypeOK ==
    /\ cnt \in 0 .. (MaxSessions + 1)
    /\ rw_cnt \in 0 .. (MaxSessions + 1)
    /\ free_handle \in 0 .. (MaxSessions + 1)
    /\ table \in [Cells -> Addr \cup {NULL, LockPtr}]
    /\ lock \in Threads \cup {NoThread}
    /\ login_state \in {"none", "user", "so"}
    /\ login_session_ctx \in Addr \cup {NULL}
    /\ live \in [Addr -> BOOLEAN]
    /\ ctx_state \in [Addr -> CK_STATE]
    /\ ctx_lock \in [Addr -> Threads \cup {NoThread}]
    /\ nfree \in [Addr -> 0 .. 2]
    /\ closed \subseteq Slots
    /\ issued \subseteq Cells
    /\ halt \in {"run", "abort", "corrupt"}

----
\* The specification with concurrent callers: the functions C_CloseSession,
\* C_CloseAllSessions, C_GetSessionInfo, C_Login, C_Logout and every
\* session-bound call reach, run by all of Threads on a table that holds
\* open sessions.

\* number of sessions open when the callers start
ConcSessions == 2

\* the table after ConcSessions creates, read-only or read-write, no login
InitConc ==
    \E rws \in [0 .. (ConcSessions - 1) -> BOOLEAN] :
        /\ cnt = ConcSessions
        /\ rw_cnt = Cardinality({s \in DOMAIN rws : rws[s]})
        /\ free_handle = ConcSessions
        /\ table = [s \in Cells |-> IF s = MaxSessions THEN LockPtr
                                     ELSE IF s < ConcSessions THEN s + 1 ELSE NULL]
        /\ lock = NoThread
        /\ login_state = "none"
        /\ login_session_ctx = NULL
        /\ live = [a \in Addr |-> a <= ConcSessions]
        /\ ctx_state = [a \in Addr |->
                           IF a <= ConcSessions
                           THEN NewSessionState(rws[a - 1], "none")
                           ELSE "RO_PUBLIC"]
        /\ ctx_lock = [a \in Addr |-> NoThread]
        /\ thr = [t \in Threads |-> IdleThread]
        /\ nfree = [a \in Addr |-> 0]
        /\ closed = {}
        /\ issued = 0 .. (ConcSessions - 1)
        /\ halt = "run"

\* a step of caller t
CallerStep(t) ==
    \/ session_table_lock(t)
    \/ session_table_unlock(t)
    \/ return(t)
    \/ session_table_get_cnt(t)
    \/ session_table_get_cnt_unlocked(t)
    \/ session_table_free_ctx(t)
    \/ session_table_free_ctx_unlocked_by_handle(t)
    \/ free_ctx_logout(t)
    \/ session_table_free_ctx_all(t)
    \/ free_ctx_all_slot(t)
    \/ free_ctx_all_logout(t)
    \/ session_table_lookup(t)
    \/ lookup_read_slot(t)
    \/ lookup_ctx_lock(t)
    \/ session_ctx_unlock(t)
    \/ session_ctx_login(t)
    \/ session_ctx_logout(t)
    \/ session_table_login_event(t)
    \/ session_table_logout_event(t)
    \/ login_done(t)
    \/ logout_done(t)

NextConc == \E t \in Threads : CallerStep(t)

\* every caller that can take a step eventually takes one
SpecConc ==
    /\ InitConc
    /\ [][NextConc]_vars
    /\ \A t \in Threads : WF_vars(CallerStep(t))

----
\* Claims.

\* caller t takes a step
Moved(t) == thr'[t] # thr[t]

\* the slot a close is working on: the handle of a close by handle, the
\* loop index of a close-all
ClosingSlot(t) ==
    IF thr[t].pc \in {"free_by_handle", "free_logout"} THEN thr[t].handle ELSE thr[t].i

CountLabels == {"free_by_handle", "all_loop"}
LogoutLabels == {"free_logout", "all_logout"}

\* C1: after every operation 0 <= rw_cnt <= cnt <= MaxSessions.
C1_CountBounds ==
    /\ 0 <= rw_cnt
    /\ rw_cnt <= cnt
    /\ cnt <= MaxSessions

\* C2: a login does not outlive the sessions: whenever the table mutex is
\* free, a count of 0 means that no one is logged in; a close that brings
\* the count to 0 under a login therefore logs out before it unlocks.
C2_LoginEndsWithLastSession ==
    lock = NoThread => (cnt = 0 => login_state = "none")

\* a close has brought the count to 0 under a login and has returned: the
\* login context was freed by the cascade and no one is logged in
C2_Witness ==
    \E t \in Threads :
        /\ thr[t].pc = "ret"
        /\ thr[t].op \in {"close", "close_all"}
        /\ lock = NoThread
        /\ cnt = 0
        /\ login_state = "none"
        /\ login_session_ctx # NULL
        /\ nfree[login_session_ctx] = 1

\* C3: in a close that brings the count to 0 under a login, the cascade
\* logout runs, the login context and the context being closed are each
\* destroyed exactly once (once in all when they are the same context),
\* nothing is destroyed twice and no other context is destroyed.
C3_DestroyedExactlyOnce ==
    [][\A t \in Threads :
        LET s == ClosingSlot(t)
            c == table[s]
            L == login_session_ctx
        IN
        /\ (/\ thr[t].pc \in CountLabels
            /\ Moved(t)
            /\ s \in Slots
            /\ c # NULL
            /\ cnt = 1
            /\ login_state # "none")
           => (/\ thr'[t].pc \in LogoutLabels
               /\ live' = live
               /\ nfree' = nfree)
        /\ (thr[t].pc \in LogoutLabels /\ Moved(t))
           => (/\ halt' = "run"
               /\ live[L] /\ ~live'[L] /\ nfree[L] = 0 /\ nfree'[L] = 1
               /\ live[c] /\ ~live'[c] /\ nfree[c] = 0 /\ nfree'[c] = 1
               /\ \A a \in Addr \ {L, c} : live'[a] = live[a] /\ nfree'[a] = nfree[a])
      ]_vars

\* the last session, which holds the login, has been closed by handle: the
\* only context destroyed in the close is the login context, once
C3_Witness ==
    \E t \in Threads :
        /\ thr[t].pc = "free_unlock"
        /\ thr[t].rv = "OK"
        /\ cnt = 0
        /\ login_state = "none"
        /\ login_session_ctx # NULL
        /\ \A a \in Addr : nfree[a] = (IF a = login_session_ctx THEN 1 ELSE 0)

\* as C3_Witness, with the login held by a session closed earlier: two
\* contexts are destroyed, once each
C3_WitnessOther ==
    \E t \in Threads :
        /\ thr[t].pc = "free_unlock"
        /\ cnt = 0
        /\ login_session_ctx # NULL
        /\ nfree[login_session_ctx] = 1
        /\ \E a \in Addr \ {login_session_ctx} : nfree[a] = 1

\* C4: lookup of a handle whose slot is occupied hands that slot's context
\* to the caller with the context's mutex held by the caller; the mutex was
\* taken while the caller held the table mutex, and the caller does not
\* hold the table mutex when lookup returns.
C4_LookupReturnsLocked ==
    [][\A t \in Threads :
        LET h == thr[t].handle IN
        /\ (thr[t].pc = "lk_read" /\ Moved(t) /\ h \in Slots /\ table[h] # NULL)
           => (/\ thr'[t].pc = "lk_ctx_lock"
               /\ thr'[t].ctx = table[h]
               /\ lock' = t)
        /\ (thr[t].pc = "lk_ctx_lock" /\ Moved(t) /\ h \in Slots)
           => (/\ lock = t /\ lock' = t
               /\ ctx_lock[thr[t].ctx] = NoThread
               /\ ctx_lock'[thr[t].ctx] = t
               /\ thr'[t].pc = "lk_unlock")
        /\ (thr[t].pc = "lk_unlock" /\ Moved(t) /\ thr[t].ctx # NULL)
           => (/\ thr'[t].pc = "holding"
               /\ thr'[t].rv = "CTX"
               /\ thr'[t].ctx = table'[h]
               /\ ctx_lock'[thr'[t].ctx] = t
               /\ lock = t /\ lock' = NoThread)
      ]_vars

\* lookup of an open handle has returned: the caller holds the session's
\* mutex and the table mutex is free
C4_Witness ==
    \E t \in Threads :
        /\ thr[t].pc = "holding"
        /\ thr[t].op = "lookup"
        /\ thr[t].handle \in Slots
        /\ thr[t].ctx = table[thr[t].handle]
        /\ ctx_lock[thr[t].ctx] = t
        /\ lock = NoThread

\* C5: lookup of an in-range handle that was never allocated, or that was
\* allocated and then closed, takes no session mutex, yields not-found and
\* returns with the table mutex released.
C5_LookupOfDeadHandle ==
    [][\A t \in Threads :
        LET h == thr'[t].handle IN
        (/\ Moved(t)
         /\ thr'[t].op = "lookup"
         /\ h \in Slots
         /\ (h >= free_handle \/ h \in closed))
        => (/\ thr'[t].pc \in {"lk_lock", "lk_read", "lk_unlock", "ret"}
            /\ ctx_lock' = ctx_lock
            /\ thr'[t].ctx = NULL
            /\ (thr'[t].pc = "ret" => thr'[t].rv = "NULL" /\ lock' = NoThread))
      ]_vars

\* lookup of a handle that was allocated and closed has returned not-found
C5_Witness ==
    \E t \in Threads :
        /\ thr[t].pc = "ret"
        /\ thr[t].op = "lookup"
        /\ thr[t].handle \in closed
        /\ thr[t].rv = "NULL"
        /\ thr[t].nlock = 1
        /\ lock = NoThread

\* lookup of a handle that was never allocated has returned not-found
C5_WitnessNeverAllocated ==
    \E t \in Threads :
        /\ thr[t].pc = "ret"
        /\ thr[t].op = "lookup"
        /\ thr[t].handle \in Slots
        /\ thr[t].handle >= free_handle
        /\ thr[t].rv = "NULL"

\* C6: for every handle h >= MaxSessions, h = MaxSessions included, lookup
\* yields not-found without taking the table mutex and without reading a slot.
C6_LookupOutOfRange ==
    \A t \in Threads :
        (thr[t].op = "lookup" /\ thr[t].handle >= MaxSessions)
        => (/\ thr[t].nlock = 0
            /\ thr[t].acc = {}
            /\ (thr[t].pc = "ret" => thr[t].rv = "NULL"))

\* C7: close by handle of an in-range handle whose slot is empty fails with
\* invalid-handle and leaves the slots, cnt, rw_cnt, free_handle and the
\* token's login state as they were; the locked form releases the table
\* mutex before it returns that result.
C7_CloseOfEmptySlot ==
    [][\A t \in Threads :
        LET h == thr[t].handle IN
        /\ (thr[t].pc = "free_by_handle" /\ Moved(t) /\ h \in Slots /\ table[h] = NULL)
           => (/\ thr'[t].pc = "free_unlock"
               /\ thr'[t].rv = "HANDLE_INVALID"
               /\ lock' = t
               /\ UNCHANGED <<table, cnt, rw_cnt, free_handle, login_state,
                              login_session_ctx, live>>)
        /\ (thr[t].pc = "free_unlock" /\ Moved(t) /\ h \in Slots /\ thr[t].rv # "OK")
           => (/\ thr[t].rv = "HANDLE_INVALID"
               /\ thr'[t].rv = "HANDLE_INVALID"
               /\ thr'[t].pc = "ret"
               /\ lock = t /\ lock' = NoThread
               /\ UNCHANGED <<table, cnt, rw_cnt, free_handle, login_state,
                              login_session_ctx, live>>)
      ]_vars

\* close by handle of an empty in-range slot has returned invalid-handle
C7_Witness ==
    \E t \in Threads :
        /\ thr[t].pc = "ret"
        /\ thr[t].op = "close"
        /\ thr[t].handle \in Slots
        /\ thr[t].rv = "HANDLE_INVALID"
        /\ lock = NoThread

\* C8: close by handle of a handle h >= MaxSessions is reported as
\* invalid-handle, without an access to any slot and without a change of
\* the table.
C8_CloseOutOfRange ==
    \A t \in Threads :
        (thr[t].op = "close" /\ thr[t].handle >= MaxSessions)
        => (/\ thr[t].acc = {}
            /\ halt = "run"
            /\ (thr[t].pc \in {"free_unlock", "ret"} => thr[t].rv = "HANDLE_INVALID"))

\* C9: a successful create returns the value free_handle had before the
\* call, stores the new context at exactly that index, adds one to
\* free_handle and to cnt, adds one to rw_cnt exactly when the read-write
\* flag was passed, and leaves every other slot as it was.
C9_CreateEffect ==
    [][\A t \in Threads :
        (thr[t].pc = "new_ctx" /\ Moved(t) /\ thr'[t].rv = "OK")
        => (/\ thr'[t].out = free_handle
            /\ table'[free_handle] \in Addr
            /\ table'[free_handle] # table[free_handle]
            /\ ~live[table'[free_handle]] /\ live'[table'[free_handle]]
            /\ \A x \in Cells \ {free_handle} : table'[x] = table[x]
            /\ free_handle' = free_handle + 1
            /\ cnt' = cnt + 1
            /\ rw_cnt' = rw_cnt + (IF thr[t].rw THEN 1 ELSE 0)
            /\ thr'[t].pc = "new_unlock")
      ]_vars

\* a read-only create has succeeded after a read-write one
C9_Witness ==
    \E t \in Threads :
        /\ thr[t].pc = "new_unlock"
        /\ thr[t].rv = "OK"
        /\ ~thr[t].rw
        /\ thr[t].out = 1
        /\ table[1] \in Addr
        /\ free_handle = 2
        /\ cnt = 2
        /\ rw_cnt = 1

\* the read-write variants of the session state
RWVariants == {"RW_PUBLIC", "RW_USER", "RW_SO"}

\* C10: closing an open session takes one from cnt, takes one from rw_cnt
\* exactly when the session's state at the close is a read-write variant,
\* clears the slot of the session and leaves free_handle and every other
\* slot as they were.
C10_CloseEffect ==
    [][\A t \in Threads :
        LET s == ClosingSlot(t)
            c == table[s]
        IN
        /\ (thr[t].pc \in CountLabels /\ Moved(t) /\ s \in Slots /\ c # NULL)
           => (/\ cnt' = cnt - 1
               /\ rw_cnt' = rw_cnt - (IF ctx_state[c] \in RWVariants THEN 1 ELSE 0)
               /\ free_handle' = free_handle
               /\ \A x \in Cells \ {s} : table'[x] = table[x]
               /\ table'[s] = (IF thr'[t].pc \in LogoutLabels THEN c ELSE NULL))
        /\ (thr[t].pc \in LogoutLabels /\ Moved(t))
           => (/\ UNCHANGED <<cnt, rw_cnt, free_handle>>
               /\ \A x \in Cells \ {s} : table'[x] = table[x]
               /\ table'[s] = NULL)
      ]_vars

\* a read-write session has been closed while another session stays open
C10_Witness ==
    \E t \in Threads :
        /\ thr[t].pc = "free_unlock"
        /\ thr[t].rv = "OK"
        /\ thr[t].handle \in closed
        /\ table[thr[t].handle] = NULL
        /\ cnt = 1
        /\ rw_cnt = 0
        /\ free_handle = 2

\* C11: free_handle never decreases, and a successful create never returns
\* a handle that an earlier successful create has returned, also when the
\* slot of an earlier handle has been freed in between.
C11_HandlesNeverReused ==
    [][/\ free_handle' >= free_handle
       /\ \A t \in Threads :
            (thr[t].pc = "new_ctx" /\ Moved(t) /\ thr'[t].rv = "OK")
            => (/\ thr'[t].out \notin issued
                /\ thr'[t].out >= free_handle
                /\ free_handle' > thr'[t].out)
      ]_vars

\* a create has succeeded after an earlier handle was closed: it returns a
\* new handle and leaves the freed slot empty
C11_Witness ==
    \E t \in Threads :
        /\ thr[t].pc = "new_unlock"
        /\ thr[t].rv = "OK"
        /\ thr[t].out \in Slots
        /\ \E h \in closed : h < thr[t].out /\ table[h] = NULL
        /\ issued = 0 .. thr[t].out

\* C12: once free_handle has reached MaxSessions no further session can be
\* opened: a create called then does not succeed, stores no context and
\* accesses no cell outside table[0 .. MaxSessions-1], also when lower slots
\* have been emptied by closes.
C12_NoCreatePastCapacity ==
    [][\A t \in Threads :
        (thr[t].pc = "new_ctx" /\ Moved(t) /\ free_handle >= MaxSessions)
        => (/\ thr'[t].rv # "OK"
            /\ table' = table
            /\ live' = live
            /\ thr'[t].acc \subseteq Slots
            /\ halt' = "run")
      ]_vars

BroadcastLabels == {"login_event", "logout_event"}

\* the notifications of sequence q that went to slot s
SentTo(q, s) == {k \in 1 .. Len(q) : q[k][1] = s}

\* C13: a login or logout broadcast sends exactly one notification to each
\* session whose slot is occupied and none for an empty slot; the take_lock
\* flag is false for the session that triggered the broadcast and true for
\* every other one, and the triggering session's mutex, which the caller
\* holds, is not acquired by the broadcast.
C13_BroadcastNotifiesEachOnce ==
    [][\A t \in Threads :
        LET i == thr[t].i
            c == table[i]
            q == thr'[t].sent
        IN
        (thr[t].pc \in BroadcastLabels /\ Moved(t))
        => (/\ q = (IF c = NULL THEN thr[t].sent
                    ELSE Append(thr[t].sent, <<i, c # thr[t].ctx>>))
            /\ ctx_lock[thr[t].ctx] = t
            /\ ctx_lock' = ctx_lock
            /\ table' = table
            /\ (thr'[t].pc \notin BroadcastLabels)
               => (/\ \A s \in Slots :
                        Cardinality(SentTo(q, s)) = (IF table[s] = NULL THEN 0 ELSE 1)
                   /\ \A k \in 1 .. Len(q) :
                        q[k][2] = (table[q[k][1]] # thr[t].ctx)
                   /\ \E k \in 1 .. Len(q) : ~q[k][2]))
      ]_vars

\* a broadcast is over on a table with an empty slot and two open sessions:
\* two notifications were sent, the one to the triggering session with
\* take_lock false, the other with take_lock true
C13_Witness ==
    \E t \in Threads :
        /\ thr[t].pc \in {"login_done", "logout_done"}
        /\ \E s \in Slots : table[s] = NULL
        /\ Len(thr[t].sent) = 2
        /\ \E j, k \in 1 .. 2 :
             /\ thr[t].sent[j] = <<thr[t].handle, FALSE>>
             /\ thr[t].sent[k][2]
             /\ table[thr[t].sent[k][1]] \notin {NULL, thr[t].ctx}

\* C14: close-all ends with cnt = 0, rw_cnt = 0, every slot empty and no one
\* logged in, wherever in the scan the session that holds the login comes;
\* it has taken the table mutex once and released it once.
C14_CloseAllEmptiesTable ==
    \A t \in Threads :
        (thr[t].op = "close_all" /\ thr[t].pc = "ret")
        => (/\ cnt = 0
            /\ rw_cnt = 0
            /\ \A s \in Slots : table[s] = NULL
            /\ login_state = "none"
            /\ thr[t].nlock = 1
            /\ thr[t].nunlock = 1
            /\ lock = NoThread
            /\ halt = "run")

\* the contexts the running close has destroyed
Destroyed == {a \in Addr : nfree[a] = 1}

\* close-all has returned from a table whose slots were all occupied, with
\* the login held by a session in the middle of the scan
C14_Witness ==
    \E t \in Threads :
        /\ thr[t].op = "close_all"
        /\ thr[t].pc = "ret"
        /\ \E s \in thr[t].login_slots : 0 < s /\ s < MaxSessions - 1
        /\ Cardinality(Destroyed) = MaxSessions
        /\ login_state = "none"

\* as C14_Witness, the login held by the first session of the scan
C14_WitnessFirst ==
    \E t \in Threads :
        /\ thr[t].op = "close_all"
        /\ thr[t].pc = "ret"
        /\ thr[t].login_slots = {0}
        /\ Cardinality(Destroyed) = MaxSessions
        /\ login_state = "none"

\* as C14_Witness, the login held by the last session of the scan
C14_WitnessLast ==
    \E t \in Threads :
        /\ thr[t].op = "close_all"
        /\ thr[t].pc = "ret"
        /\ thr[t].login_slots = {MaxSessions - 1}
        /\ Cardinality(Destroyed) = MaxSessions
        /\ login_state = "none"

Occupied == {s \in Slots : table[s] # NULL}

\* the points where a create or a close has done its work on the table
AfterOperation(t) ==
    /\ thr[t].op \in {"create", "close", "close_all"}
    /\ thr[t].pc \in {"new_unlock", "free_unlock", "all_unlock", "ret"}

\* C15: after every create and every close, slot h is occupied exactly when
\* h was returned by a successful create and has not been closed since;
\* cnt is the number of occupied slots and rw_cnt the number of occupied
\* slots whose session is in a read-write state.
C15_SlotsMatchOpenSessions ==
    \A t \in Threads :
        AfterOperation(t)
        => (/\ \A h \in Handles :
                 (h \in Slots /\ table[h] # NULL) <=> (h \in issued \ closed)
            /\ cnt = Cardinality(Occupied)
            /\ rw_cnt = Cardinality({s \in Occupied : ctx_state[table[s]] \in RWVariants}))

\* C16: whenever the table mutex is free, someone is logged in exactly when
\* login_session_ctx refers to a session context that exists and has not
\* been destroyed (the token has one login_session_ctx, so at most one
\* context is referred to); so it is after a cascade logout and after the
\* close of the login session while other sessions stay open.
C16_LoggedInIffLoginSessionValid ==
    lock = NoThread
    => ((login_state # "none")
        <=> (login_session_ctx # NULL /\ live[login_session_ctx]))

\* caller t is inside an operation and cannot take a step: it waits for a
\* mutex
Blocked(t) == thr[t].pc # "idle" /\ ~ENABLED CallerStep(t)

\* C17: with callers that never take the table mutex while they hold a
\* session mutex from lookup, the running lookups, counts, closes and
\* broadcasts cannot deadlock: there is no state in which every caller is
\* inside an operation, waiting for a mutex that only another waiting caller
\* can release, so every started operation can complete.
C17_NoDeadlock ==
    halt = "run" => ~(\A t \in Threads : Blocked(t))

\* C18: whenever a close leaves out the ordinary destruction of the context
\* it closes, because that context is the cached login context, the cascade
\* logout of the same close has destroyed the context; so it is when the
\* login session is closed while other sessions stay open, and no closed
\* session's context stays undestroyed.
C18_SkippedContextIsDestroyed ==
    [][\A t \in Threads :
        LET s == ClosingSlot(t)
            c == table[s]
        IN
        (/\ thr[t].pc \in CountLabels \cup LogoutLabels
         /\ Moved(t)
         /\ s \in Slots
         /\ c # NULL
         /\ table'[s] = NULL
         /\ login_session_ctx = c)
        => (/\ ~live'[c]
            /\ nfree'[c] = 1
            /\ thr[t].pc \in LogoutLabels)
      ]_vars

\* the steps that read or write table[], cnt, rw_cnt or free_handle
TableAccessLabels ==
    {"new_ctx", "get_cnt", "free_by_handle", "free_logout", "all_loop",
     "all_logout", "lk_read"} \cup BroadcastLabels

\* C19: every read and every write of a slot, of cnt, of rw_cnt and of
\* free_handle is made by a caller that holds the table mutex, so no other
\* caller is at such an access at the same time; the scan of a login or
\* logout broadcast is one of these accesses.
C19_TableAccessUnderLock ==
    [][\A t \in Threads :
        (thr[t].pc \in TableAccessLabels /\ Moved(t))
        => (/\ lock = t
            /\ \A u \in Threads \ {t} : thr[u].pc \notin TableAccessLabels)
      ]_vars

\* a broadcast is in the middle of its scan while another caller, holding
\* the table mutex, is about to close a session the scan has not reached
C19_ScanDuringClose ==
    \E t, u \in Threads :
        /\ thr[t].pc \in BroadcastLabels
        /\ thr[t].i > 0
        /\ lock = u
        /\ thr[u].pc = "free_by_handle"
        /\ thr[u].handle \in Slots
        /\ thr[u].handle >= thr[t].i
        /\ table[thr[u].handle] # NULL

\* the labels at which a caller holds the context lookup handed to it
HoldingLabels ==
    {"holding", "used", "login_done", "logout_done"} \cup BroadcastLabels

\* C20: a context that a caller received locked from lookup is not
\* destroyed by another caller's close or close-all before the caller has
\* released the context's mutex: no caller holds a destroyed context.
C20_HeldContextNotDestroyed ==
    \A t \in Threads :
        thr[t].pc \in HoldingLabels => live[thr[t].ctx]

====
